---- MODULE Spec2Model ----
(***************************************************************************)
(* Error taxonomy and transaction-scoped persistence of the voyago core    *)
(* API: the context carrier (ctxkey), the storage error classifier          *)
(* (database.MapDBError), the transaction manager (gormDatabase.Atomic)    *)
(* and the generic repository base (baserepo.BaseRepository).              *)
(***************************************************************************)
EXTENDS Integers, Sequences, FiniteSets, TLC

\* ------------------------------------------------------------------ bounds

\* transactions begun in one run
MaxTx == 2
\* repository calls issued in one run
MaxWrites == 2
\* depth of nested Atomic calls of one request
MaxDepth == 2
\* entries of a context chain built by the carrier specification
MaxCtxLen == 3
\* entries of a list-shaped detail container
MaxDetails == 2

Requests == {"r1", "r2"}
TxIds == 1..MaxTx

\* ---------------------------------------------------------- context carrier

Nil == [t |-> "nil"]

\* type key struct{}: every value of the type is the same zero-size value key{}
key == [pkg |-> "ctxkey", type |-> "key"]
kTx == key
kRequestID == key
\* a key of any other package (a distinct type, never equal to key{})
otherKey == [pkg |-> "other", type |-> "key"]

\* context.Background(), a nil context.Context, and context.WithValue
Background == [nil |-> FALSE, vals |-> <<>>]
NilCtx == [nil |-> TRUE, vals |-> <<>>]
WithValue(ctx, k, v) == [nil |-> FALSE, vals |-> Append(ctx.vals, <<k, v>>)]

\* ctx.Value(k): the value of the innermost entry whose key equals k (Go's ==)
RECURSIVE ValueAt(_, _, _)
ValueAt(vals, k, i) ==
    IF i = 0 THEN Nil
    ELSE IF vals[i][1] = k THEN vals[i][2]
    ELSE ValueAt(vals, k, i - 1)
Value(ctx, k) == ValueAt(ctx.vals, k, Len(ctx.vals))

GoString(s) == [t |-> "string", s |-> s]
GormTx(id) == [t |-> "*gorm.DB", tx |-> id]
\* the root *gorm.DB (g.db): no transaction
RootDB == [t |-> "*gorm.DB", tx |-> 0]

GetRequestID(ctx) ==
    IF ctx.nil THEN ""
    ELSE LET v == Value(ctx, kRequestID)
         IN IF v.t = "string" THEN v.s ELSE ""

GetTransaction(ctx) ==
    IF ctx.nil THEN Nil ELSE Value(ctx, kTx)

SetTransactionDropped(ctx, tx) == ctx
SetTransaction(ctx, tx) == WithValue(ctx, kTx, tx)

SetRequestID(ctx, id) == WithValue(ctx, kRequestID, GoString(id))

\* RequestID middleware: the header value, "unknown" when the header is absent
RequestIDOf(header) == IF header = "" THEN "unknown" ELSE header

\* ------------------------------------------------------------ error values

KindPersistance == "PERSISTANCE"
KindTransient == "TRANSIENT"
KindInternal == "INTERNAL"

CodeDbConnectionFailed == "DB_CONNECTION_FAILED"
CodeDbTimeout == "DB_TIMEOUT"
CodeDbDeadlock == "DB_DEADLOCK"
CodeDbConstraint == "DB_CONSTRAINT"
CodeDbConflict == "DB_CONFLICT"
CodeInternalError == "INTERNAL_ERROR"

NoDetails == [shape |-> "none"]

\* apperror.New and its three constructors
New(code, message, kind, err) ==
    [t |-> "AppError", Code |-> code, Message |-> message, Kind |-> kind,
     Details |-> NoDetails, Err |-> err]
NewPersistance(code, message, err) == New(code, message, KindPersistance, err)
NewTransient(code, message, err) == New(code, message, KindTransient, err)
NewInternal(code, message, err) == New(code, message, KindInternal, err)

\* AppError.WithDetail: Details becomes (or stays) a map and gets key |-> value
WithDetail(e, k, v) ==
    LET cur == IF e.Details.shape = "map" THEN e.Details.m ELSE <<>>
        rest == [x \in (DOMAIN cur) \ {k} |-> cur[x]]
    IN [e EXCEPT !.Details = [shape |-> "map", m |-> (k :> v) @@ rest]]

\* AppError.WithError: the cause is replaced, in place
WithErrorAsInternal(e, err) == [e EXCEPT !.Err = err, !.Kind = KindInternal]
WithError(e, err) == [e EXCEPT !.Err = err]

\* AppError.AddValidationError: Details becomes (or stays) a []map[string]string
\* and gets one more field/message entry
AddValidationError(e, field, message) ==
    LET list == IF e.Details.shape = "[]map[string]string" THEN e.Details.l ELSE <<>>
    IN [e EXCEPT !.Details =
          [shape |-> "[]map[string]string",
           l |-> Append(list, [field |-> field, message |-> message])]]

\* AppError.AddValidationErrors: Details becomes the given []map[string]any
AddValidationErrors(e, errors) ==
    [e EXCEPT !.Details = [shape |-> "[]map[string]any", l |-> errors]]

\* AppError.Error
Error(e) == e.Message

\* AppError.IsRetryable
IsRetryableNotPersistance(e) == e.Kind # KindPersistance
IsRetryable(e) == e.Kind = KindTransient

\* A raw error of the driver stack: the sentinels errors.Is finds in its chain,
\* the *pgconn.PgError errors.As finds in it (NoPg: none), and the phrases of
\* its Error() text.
NoPg == [Code |-> "", ConstraintName |-> "", Detail |-> "", Message |-> ""]
Raw(is, pg, msg) == [t |-> "raw", is |-> is, pg |-> pg, msg |-> msg]
PgError(code, constraint, detail, message) ==
    [Code |-> code, ConstraintName |-> constraint, Detail |-> detail, Message |-> message]

ErrRecordNotFound == "gorm.ErrRecordNotFound"
DeadlineExceeded == "context.DeadlineExceeded"
Canceled == "context.Canceled"

ErrRawNotFound == Raw({ErrRecordNotFound}, NoPg, {"record not found"})
ErrRawDeadline == Raw({DeadlineExceeded}, NoPg, {"context deadline exceeded"})
ErrRawCanceled == Raw({Canceled}, NoPg, {"context canceled"})
ErrRawUnique ==
    Raw({}, PgError("23505", "bookings_code_key", "Key (code) already exists", "duplicate key"),
        {"duplicate key"})
ErrRawConnRefused == Raw({}, NoPg, {"dial tcp", "connection refused"})
ErrRawBrokenPipe == Raw({}, NoPg, {"write", "broken pipe"})
ErrRawCommitRollback == Raw({}, NoPg, {"commit unexpectedly resulted in rollback"})
ErrRawTxAborted ==
    Raw({}, PgError("25P02", "", "", "current transaction is aborted"),
        {"current transaction is aborted"})

\* the *pgconn.PgError found in the chain, as the error value mapPgError wraps
PgCause(err) == Raw({}, err.pg, {err.pg.Message})

\* errors.Is(err, target), errors.As(err, &pgErr), strings.Contains(err.Error(), s)
ErrorsIs(err, target) == target \in err.is
ErrorsAsPg(err) == err.pg # NoPg
Contains(err, s) == s \in err.msg

\* ------------------------------------------------------ storage classifier

\* mapPgError: Nil when the chain holds no PgError or its code is not listed
mapPgError(err) ==
    IF ~ErrorsAsPg(err) THEN Nil
    ELSE LET c == err.pg.Code IN
      IF c \in {"08000", "08003", "08006", "57P01"}
        THEN NewTransient(CodeDbConnectionFailed, <<"database connection failed">>, PgCause(err))
      ELSE IF c = "40P01"
        THEN NewTransient(CodeDbDeadlock, <<"database deadlock detected, please retry">>, PgCause(err))
      ELSE IF c = "55P03"
        THEN NewTransient(CodeDbTimeout, <<"database lock timeout">>, PgCause(err))
      ELSE IF c = "23505"
        THEN WithDetail(WithDetail(NewPersistance(CodeDbConflict, <<"duplicate data">>, PgCause(err)),
                                   "constraint", err.pg.ConstraintName),
                        "detail", err.pg.Detail)
      ELSE IF c \in {"23503", "23502", "23000"}
        THEN NewPersistance(CodeDbConstraint,
                            <<"database constraint violation: ", err.pg.Message>>,
                            PgCause(err))
      ELSE IF c \in {"42703", "42601", "42P01"}
        THEN NewInternal(CodeInternalError, <<"database schema or syntax error">>, PgCause(err))
      ELSE Nil

ConnectionText(err) ==
    \/ Contains(err, "connection refused")
    \/ Contains(err, "can't assign requested address")
    \/ Contains(err, "connection reset by peer")
    \/ Contains(err, "broken pipe")

MapDBErrorNoFallback(err) ==
    IF err = Nil THEN Nil
    ELSE IF ErrorsIs(err, ErrRecordNotFound) THEN err
    ELSE IF ErrorsIs(err, DeadlineExceeded)
      THEN NewTransient(CodeDbTimeout, <<"database operation timed out">>, err)
    ELSE IF mapPgError(err) # Nil THEN mapPgError(err)
    ELSE IF ConnectionText(err)
      THEN NewTransient(CodeDbConnectionFailed, <<"database connection failed">>, err)
    ELSE Nil
MapDBErrorSubstringFirst(err) ==
    IF err = Nil THEN Nil
    ELSE IF ErrorsIs(err, ErrRecordNotFound) THEN err
    ELSE IF ErrorsIs(err, DeadlineExceeded)
      THEN NewTransient(CodeDbTimeout, <<"database operation timed out">>, err)
    ELSE IF ConnectionText(err)
      THEN NewTransient(CodeDbConnectionFailed, <<"database connection failed">>, err)
    ELSE IF mapPgError(err) # Nil THEN mapPgError(err)
    ELSE NewInternal(CodeInternalError, <<"unexpected database error">>, err)
MapDBErrorNotFoundLate(err) ==
    IF err = Nil THEN Nil
    ELSE IF ErrorsIs(err, DeadlineExceeded)
      THEN NewTransient(CodeDbTimeout, <<"database operation timed out">>, err)
    ELSE IF ErrorsIs(err, ErrRecordNotFound) THEN err
    ELSE IF mapPgError(err) # Nil THEN mapPgError(err)
    ELSE IF ConnectionText(err)
      THEN NewTransient(CodeDbConnectionFailed, <<"database connection failed">>, err)
    ELSE NewInternal(CodeInternalError, <<"unexpected database error">>, err)
MapDBError(err) ==
    IF err = Nil THEN Nil
    ELSE IF ErrorsIs(err, ErrRecordNotFound) THEN err
    ELSE IF ErrorsIs(err, DeadlineExceeded)
      THEN NewTransient(CodeDbTimeout, <<"database operation timed out">>, err)
    ELSE IF mapPgError(err) # Nil THEN mapPgError(err)
    ELSE IF \/ Contains(err, "connection refused")
            \/ Contains(err, "can't assign requested address")
            \/ Contains(err, "connection reset by peer")
            \/ Contains(err, "broken pipe")
      THEN NewTransient(CodeDbConnectionFailed, <<"database connection failed">>, err)
    ELSE NewInternal(CodeInternalError, <<"unexpected database error">>, err)

\* The raw errors handed to the classifier: the sentinels in the chain, the
\* SQLSTATE of the *pgconn.PgError in it ("" for a chain without one) and the
\* phrases of its Error() text, in every combination.
RawSentinels ==
    {{}, {ErrRecordNotFound}, {DeadlineExceeded}, {Canceled},
     {ErrRecordNotFound, DeadlineExceeded}}
\* connection_failure, deadlock_detected, lock_not_available, unique_violation,
\* foreign_key_violation, not_null_violation, integrity_constraint_violation,
\* check_violation, syntax_error, raise_exception
PgCodes ==
    {"", "08006", "40P01", "55P03", "23505", "23503", "23502", "23000", "23514",
     "42601", "P0001"}
RawPhrases == {"connection refused", "broken pipe", "deadlock detected"}
RawOf(is, code, phrases) ==
    Raw(is,
        IF code = "" THEN NoPg
        ELSE PgError(code, IF code \in {"23505", "23503", "23514"} THEN "bookings_code_key" ELSE "",
                     "driver detail", "driver message"),
        phrases)
RawErrors ==
    {RawOf(is, code, phrases) :
        is \in RawSentinels, code \in PgCodes, phrases \in SUBSET RawPhrases}

\* the SQLSTATE classes the claims speak of
RecognizedPgCodes ==
    {"08000", "08003", "08006", "57P01", "40P01", "55P03", "23505", "23503", "23502",
     "23000", "42703", "42601", "42P01"}
\* class 23 other than unique_violation: restrict, not-null, foreign key, check
\* and exclusion violations and the class code itself
IntegrityPgCodes == {"23000", "23001", "23502", "23503", "23514", "23P01"}
ConnectionPhrases ==
    {"connection refused", "can't assign requested address", "connection reset by peer",
     "broken pipe"}

\* not yet classified
Unmapped == [t |-> "unmapped"]

\* ---------------------------------------------------------- status registry

initConflict500 ==
    LET seed ==
          {<<CodeDbConnectionFailed, 500>>, <<CodeDbTimeout, 500>>, <<CodeDbDeadlock, 500>>,
           <<CodeDbConstraint, 500>>, <<CodeDbConflict, 500>>, <<CodeInternalError, 500>>,
           <<"MALFORMED_REQUEST", 400>>, <<"INVALID_REQUEST", 400>>,
           <<"VALIDATION_ERROR", 400>>, <<"UNAUTHORIZED", 401>>, <<"FORBIDDEN", 403>>,
           <<"NOT_FOUND", 404>>, <<"METHOD_NOT_ALLOWED", 405>>, <<"NOT_ACCEPTABLE", 406>>,
           <<"REQUEST_TIMEOUT", 408>>, <<"CONFLICT", 409>>, <<"GONE", 410>>,
           <<"LENGTH_REQUIRED", 411>>, <<"PRECONDITION_FAILED", 412>>,
           <<"PAYLOAD_TOO_LARGE", 413>>, <<"URI_TOO_LONG", 414>>,
           <<"UNSUPPORTED_MEDIA_TYPE", 415>>, <<"RANGE_NOT_SATISFIABLE", 416>>,
           <<"EXPECTATION_FAILED", 417>>, <<"TEAPOT", 418>>, <<"MISDIRECTED_REQUEST", 421>>,
           <<"UNPROCESSABLE_ENTITY", 422>>, <<"LOCKED", 423>>, <<"FAILED_DEPENDENCY", 424>>,
           <<"TOO_EARLY", 425>>, <<"UPGRADE_REQUIRED", 426>>,
           <<"PRECONDITION_REQUIRED", 428>>, <<"TOO_MANY_REQUESTS", 429>>,
           <<"REQUEST_HEADER_FIELDS_TOO_LARGE", 431>>,
           <<"UNAVAILABLE_FOR_LEGAL_REASONS", 451>>,
           <<"NETWORK_AUTHENTICATION_REQUIRED", 511>>}
    IN [c \in {p[1] : p \in seed} |-> (CHOOSE p \in seed : p[1] = c)[2]]
\* init(): the mappings statusRegistry holds before any module registers
init ==
    LET seed ==
          {<<CodeDbConnectionFailed, 500>>, <<CodeDbTimeout, 500>>, <<CodeDbDeadlock, 500>>,
           <<CodeDbConstraint, 500>>, <<CodeDbConflict, 409>>, <<CodeInternalError, 500>>,
           <<"MALFORMED_REQUEST", 400>>, <<"INVALID_REQUEST", 400>>,
           <<"VALIDATION_ERROR", 400>>, <<"UNAUTHORIZED", 401>>, <<"FORBIDDEN", 403>>,
           <<"NOT_FOUND", 404>>, <<"METHOD_NOT_ALLOWED", 405>>, <<"NOT_ACCEPTABLE", 406>>,
           <<"REQUEST_TIMEOUT", 408>>, <<"CONFLICT", 409>>, <<"GONE", 410>>,
           <<"LENGTH_REQUIRED", 411>>, <<"PRECONDITION_FAILED", 412>>,
           <<"PAYLOAD_TOO_LARGE", 413>>, <<"URI_TOO_LONG", 414>>,
           <<"UNSUPPORTED_MEDIA_TYPE", 415>>, <<"RANGE_NOT_SATISFIABLE", 416>>,
           <<"EXPECTATION_FAILED", 417>>, <<"TEAPOT", 418>>, <<"MISDIRECTED_REQUEST", 421>>,
           <<"UNPROCESSABLE_ENTITY", 422>>, <<"LOCKED", 423>>, <<"FAILED_DEPENDENCY", 424>>,
           <<"TOO_EARLY", 425>>, <<"UPGRADE_REQUIRED", 426>>,
           <<"PRECONDITION_REQUIRED", 428>>, <<"TOO_MANY_REQUESTS", 429>>,
           <<"REQUEST_HEADER_FIELDS_TOO_LARGE", 431>>,
           <<"UNAVAILABLE_FOR_LEGAL_REASONS", 451>>,
           <<"NETWORK_AUTHENTICATION_REQUIRED", 511>>}
    IN [c \in {p[1] : p \in seed} |-> (CHOOSE p \in seed : p[1] = c)[2]]

\* The codes modules register and errors carry: an infrastructure code, a
\* module's code, and the same two spelled in lower case.
CodeBookingCodeAlreadyExists == "BOOKING_CODE_ALREADY_EXISTS"
RegCodes ==
    {CodeDbConflict, "db_conflict", CodeBookingCodeAlreadyExists,
     "booking_code_already_exists"}
RegStatuses == {409, 418}
Kinds == {KindPersistance, KindTransient, KindInternal}

\* strings.ToUpper on the codes above
ToUpper(code) ==
    IF code = "db_conflict" THEN "DB_CONFLICT"
    ELSE IF code = "booking_code_already_exists" THEN "BOOKING_CODE_ALREADY_EXISTS"
    ELSE code

\* m[k] = v on a Go map: the entry is inserted or overwritten
MapAssignKeepFirst(m, k, v) == IF k \in DOMAIN m THEN m ELSE (k :> v) @@ m
MapAssign(m, k, v) == (k :> v) @@ [x \in (DOMAIN m) \ {k} |-> m[x]]

\* the module goroutines that register at startup
Modules == {"m1", "m2"}
NoRegOp == [op |-> "none"]
NoModuleReg == [c \in {} |-> 0]

\* ------------------------------------------------------------------- state

VARIABLES
    reqs,       \* the requests in flight
    cancelled,  \* per request: "" or the ctx.Err() sentinel of its context tree
    stack,      \* per request: the Atomic calls in progress, outermost first
    lastErr,    \* per request: what the last repository or Atomic call returned
    last,       \* the last call that returned: a repository call or an Atomic call
    nW,         \* repository calls issued
    txs,        \* storage transactions by id
    nTx,        \* storage transactions begun
    committed,  \* the writes visible in storage outside any transaction
    cctx,       \* carrier specification: the context built so far
    cparent,    \* carrier specification: the context the last operation derived from
    cop,        \* carrier specification: the last carrier operation
    cattached,  \* carrier specification: SetTransaction was applied on the chain
    rawErr,     \* classifier specification: the raw storage error handed to MapDBError
    mapped,     \* classifier specification: what MapDBError returned for it
    statusRegistry, \* apperror.statusRegistry: the map from error code to HTTP status
    moduleReg,  \* per code: the status of the last RegisterStatus call of a module
    regop,      \* the last RegisterStatus or GetHttpStatus call that returned
    pcReg,      \* per module goroutine: where it is in its RegisterStatus call
    regArgs,    \* per module goroutine: the code and status it registers
    crashed,    \* the runtime stopped the process with a fatal error
    ev,         \* error value specification: the *AppError the calls are made on
    ev0,        \* error value specification: the value as New constructed it
    evop,       \* error value specification: the last call on it
    evAdded,    \* error value specification: detail entries added since the last replace
    heap,       \* the package-level *AppError values of apperror, by name
    web,        \* per HTTP request: handler position, returned error, response
    ucs,        \* per CreateBooking Execute call: position, calls made, result
    bookings    \* the committed rows of table bookings

\* the variables of the classifier and of the status registry
clsVars == <<rawErr, mapped>>
regVars == <<statusRegistry, moduleReg, regop, pcReg, regArgs, crashed>>
\* the variables of the error values, of the HTTP boundary and of the use case
evVars == <<ev, ev0, evop, evAdded>>
webVars == <<heap, web>>
ucVars == <<ucs, bookings>>
appVars == <<evVars, webVars, ucVars>>

vars == <<reqs, cancelled, stack, lastErr, last, nW, txs, nTx, committed,
          cctx, cparent, cop, cattached, clsVars, regVars, appVars>>

\* the variables of the transaction manager, the repositories and the carrier
txVars == <<reqs, cancelled, stack, lastErr, last, nW, txs, nTx, committed,
            cctx, cparent, cop, cattached>>

NoTx == [status |-> "none", owner |-> "", writes |-> {}, failed |-> FALSE,
         unitCalls |-> 0, ends |-> 0]
NoCall == [kind |-> "none"]

InitOf(inflight) ==
    /\ reqs = inflight
    /\ cancelled = [r \in Requests |-> ""]
    /\ stack = [r \in Requests |-> <<>>]
    /\ lastErr = [r \in Requests |-> Nil]
    /\ last = NoCall
    /\ nW = 0
    /\ txs = [t \in TxIds |-> NoTx]
    /\ nTx = 0
    /\ committed = {}
    /\ cctx = Background
    /\ cparent = Background
    /\ cop = [op |-> "none"]
    /\ cattached = FALSE

\* no error under classification
InitCls ==
    /\ rawErr = Nil
    /\ mapped = Unmapped

\* the registry after package initialization; no module goroutine has started
InitReg ==
    /\ statusRegistry = init
    /\ moduleReg = NoModuleReg
    /\ regop = NoRegOp
    /\ pcReg = [m \in Modules |-> "idle"]
    /\ regArgs = [m \in Modules |-> [code |-> CodeBookingCodeAlreadyExists, status |-> 409]]
    /\ crashed = FALSE

\* no error value under construction
NoEvOp == [op |-> "none"]
InitEv ==
    /\ ev = Nil
    /\ ev0 = Nil
    /\ evop = NoEvOp
    /\ evAdded = [entries |-> {}, replaced |-> FALSE]

\* the package-level error values the handlers return, as their var block
\* constructs them
ErrCodeMalformedRequest ==
    NewPersistance("MALFORMED_REQUEST", <<"Invalid JSON format or data type">>, Nil)
ErrCodeInvalidRequest == NewPersistance("INVALID_REQUEST", <<"Invalid request">>, Nil)
Globals ==
    [ErrCodeMalformedRequest |-> ErrCodeMalformedRequest,
     ErrCodeInvalidRequest |-> ErrCodeInvalidRequest]

\* no request has reached its handler
NoResponse == [t |-> "none"]
IdleWeb ==
    [pc |-> "start", case |-> "none", err |-> Nil, presented |-> Nil,
     resp |-> NoResponse]
InitWeb ==
    /\ heap = Globals
    /\ web = [r \in Requests |-> IdleWeb]

\* no Execute call in progress, table bookings empty
IdleUc ==
    [pc |-> "idle", e |-> Nil, ctx |-> Background, calls |-> <<>>, checked |-> "",
     tx |-> 0, createCtx |-> Nil, inserted |-> FALSE, unitErr |-> Nil,
     fault |-> FALSE, resp |-> Nil, err |-> Nil]
InitUc ==
    /\ ucs = [r \in Requests |-> IdleUc]
    /\ bookings = {}

InitApp == InitEv /\ InitWeb /\ InitUc

\* one request in flight
Init == InitOf({"r1"}) /\ InitCls /\ InitReg /\ InitApp
\* two requests in flight, each with a context tree of its own
InitConc == InitOf(Requests) /\ InitCls /\ InitReg /\ InitApp

\* ------------------------------------------------------- request lifecycle

Headers == {"", "req-1"}

\* The X-Request-ID header of each request in flight; the context the use case
\* of the request receives is the one the RequestID middleware derived.
ReqHeader == [r \in Requests |-> IF r = "r1" THEN "req-1" ELSE ""]
ReqCtx(r) == SetRequestID(Background, RequestIDOf(ReqHeader[r]))

\* ctx.Err() of every context derived from the request's context
CtxErr(r) == IF cancelled[r] = DeadlineExceeded THEN ErrRawDeadline ELSE ErrRawCanceled

\* What the driver does to a transaction begun with a context that is then
\* cancelled: it rolls the transaction back on its own.
Abandon(tx) ==
    IF tx.status = "open"
    THEN [tx EXCEPT !.status = "rolledback", !.ends = tx.ends + 1]
    ELSE tx

\* The request's context is cancelled or its deadline passes.
Cancel(r, sentinel) ==
    /\ cancelled[r] = ""
    /\ cancelled' = [cancelled EXCEPT ![r] = sentinel]
    /\ txs' = [t \in TxIds |-> IF txs[t].owner = r THEN Abandon(txs[t]) ELSE txs[t]]
    /\ UNCHANGED <<stack, lastErr, last, nW, nTx, committed>>
    /\ UNCHANGED <<reqs, cctx, cparent, cop, cattached, clsVars, regVars, appVars>>

\* The contexts the code running for r can pass on: the request's context, the
\* context each unit of work in progress received, and one derived from the
\* innermost of them by attaching a request ID.
TopCtx(r) == IF stack[r] = <<>> THEN ReqCtx(r) ELSE stack[r][Len(stack[r])].txCtx
AtomicCtxs(r) == {ReqCtx(r)} \cup {stack[r][i].txCtx : i \in 1..Len(stack[r])}
CallCtxs(r) == AtomicCtxs(r) \cup {SetRequestID(TopCtx(r), "req-2")}

\* --------------------------------------------------------- repository base

\* gormDatabase.WithContext: the session a repository call executes against
WithContext(c) ==
    LET tx == GetTransaction(c)
    IN IF tx # Nil /\ tx.t = "*gorm.DB" THEN tx ELSE RootDB

getDB(c) == WithContext(c)

\* the ErrorMapper the repositories are constructed with
ErrorMapper(err) == MapDBError(err)
mapErrRaw(err) == err
mapErr(err) == IF err = Nil THEN err ELSE ErrorMapper(err)

WriteFailures == {ErrRawUnique}

\* The raw result of a statement on session db for request r: the context's
\* error once it is cancelled, the aborted-transaction error after an earlier
\* failed statement of the same transaction, else what the storage answers.
Statement(r, db, fail) ==
    IF cancelled[r] # "" THEN CtxErr(r)
    ELSE IF db.tx # 0 /\ txs[db.tx].failed THEN ErrRawTxAborted
    ELSE fail

\* One Create/Update/Delete of the repository base with context c: the session
\* is resolved from c, the statement runs on it, its error goes through mapErr.
RepoExec(r, c, fail) ==
    LET db == getDB(c)
        raw == Statement(r, db, fail)
        ret == mapErr(raw)
        w == <<r, nW + 1>>
    IN /\ nW < MaxWrites
       /\ c \in CallCtxs(r)
       /\ nW' = nW + 1
       /\ lastErr' = [lastErr EXCEPT ![r] = ret]
       /\ last' = [kind |-> "repo", req |-> r, w |-> w, ctx |-> c, raw |-> raw, ret |-> ret]
       /\ IF raw = Nil
          THEN /\ IF db.tx = 0
                  THEN /\ committed' = committed \cup {w}
                       /\ txs' = txs
                  ELSE /\ committed' = committed
                       /\ txs' = [txs EXCEPT ![db.tx].writes = @ \cup {w}]
               /\ stack' = [stack EXCEPT ![r] =
                     [i \in 1..Len(stack[r]) |->
                        IF stack[r][i].txCtx = c
                        THEN [stack[r][i] EXCEPT !.mine = @ \cup {w}]
                        ELSE stack[r][i]]]
          ELSE /\ txs' = IF db.tx # 0 /\ txs[db.tx].status = "open"
                         THEN [txs EXCEPT ![db.tx].failed = TRUE]
                         ELSE txs
               /\ UNCHANGED <<committed, stack>>
       /\ UNCHANGED <<cancelled, nTx>>
       /\ UNCHANGED <<reqs, cctx, cparent, cop, cattached, clsVars, regVars, appVars>>

Create(r, c, fail) == RepoExec(r, c, fail)
Update(r, c, fail) == RepoExec(r, c, fail)
Delete(r, c, fail) == RepoExec(r, c, fail)

\* ------------------------------------------------------ transaction manager

BeginFailures == {ErrRawConnRefused}
CommitFailures == {ErrRawBrokenPipe}

ErrBookingCodeAlreadyExists ==
    NewPersistance("BOOKING_CODE_ALREADY_EXISTS", <<"booking code already exists">>, Nil)

\* g.db.WithContext(ctx).Transaction(...) always begins on the root session
\* g.db: a transaction of its own, whatever ctx carries.
NewTxIdShared(n) == 1
NewTxId(n) == n + 1

\* What Atomic returns: the unit's error as it is, else the error of the commit.
AtomicResultWrapped(unitErr, commitErr) ==
    IF unitErr # Nil
    THEN NewInternal(CodeInternalError, <<"transaction failed">>, unitErr)
    ELSE commitErr
AtomicResult(unitErr, commitErr) ==
    IF unitErr # Nil THEN unitErr ELSE commitErr

\* How the transaction ends once the unit has returned: committed when the unit
\* returned nil and the commit went through, rolled back otherwise.
EndStatusCommitAlways(unitErr, commitErr) ==
    IF commitErr = Nil THEN "committed" ELSE "rolledback"
EndStatusLeak(unitErr, commitErr) ==
    IF unitErr = Nil /\ commitErr = Nil THEN "committed"
    ELSE IF unitErr # Nil THEN "open" ELSE "rolledback"
EndStatus(unitErr, commitErr) ==
    IF unitErr = Nil /\ commitErr = Nil THEN "committed" ELSE "rolledback"

\* Atomic(c, fn) up to the invocation of fn: begin a transaction, attach its
\* handle to c, call fn with the derived context. A failed begin returns its
\* error at once and fn is not called.
AtomicBegin(r, c, fail) ==
    LET raw == IF cancelled[r] # "" THEN CtxErr(r) ELSE fail
        t == NewTxId(nTx)
        tx == GormTx(t)
        txCtx == SetTransaction(c, tx)
    IN /\ c \in AtomicCtxs(r)
       /\ Len(stack[r]) < MaxDepth
       /\ nTx < MaxTx
       /\ IF raw # Nil
          THEN /\ lastErr' = [lastErr EXCEPT ![r] = raw]
               /\ last' =
                     [kind |-> "beginFailed", req |-> r, tx |-> 0, given |-> c, txCtx |-> c,
                      unitErr |-> Nil, commitErr |-> raw, ret |-> raw, mine |-> {},
                      depth |-> Len(stack[r]) + 1]
               /\ UNCHANGED <<stack, txs, nTx>>
          ELSE /\ nTx' = nTx + 1
               /\ txs' = [txs EXCEPT ![t] =
                     [status |-> "open", owner |-> r, writes |-> txs[t].writes,
                      failed |-> FALSE, unitCalls |-> txs[t].unitCalls + 1,
                      ends |-> txs[t].ends]]
               /\ stack' = [stack EXCEPT ![r] =
                     Append(@, [tx |-> t, given |-> c, txCtx |-> txCtx, mine |-> {}])]
               /\ UNCHANGED <<lastErr, last>>
       /\ UNCHANGED <<cancelled, nW, committed>>
       /\ UNCHANGED <<reqs, cctx, cparent, cop, cattached, clsVars, regVars, appVars>>

\* The errors a unit of work may return: nil, the error of its last call, or a
\* business error of its own.
UnitErrs(r) == {Nil, lastErr[r], ErrBookingCodeAlreadyExists}

\* The rest of Atomic: fn returns unitErr; on nil the transaction is committed,
\* on an error (fn's or the commit's) it is rolled back; Atomic returns.
AtomicReturn(r, unitErr, fail) ==
    /\ stack[r] # <<>>
    /\ unitErr \in UnitErrs(r)
    /\ LET n == Len(stack[r])
           f == stack[r][n]
           t == f.tx
           commitErr == IF unitErr # Nil THEN Nil
                        ELSE IF cancelled[r] # "" THEN CtxErr(r)
                        ELSE IF txs[t].failed THEN ErrRawCommitRollback
                        ELSE fail
           ret == AtomicResult(unitErr, commitErr)
           end == EndStatus(unitErr, commitErr)
       IN /\ txs' = IF txs[t].status = "open"
                    THEN [txs EXCEPT ![t].status = end,
                                     ![t].ends = IF end = "open" THEN @ ELSE @ + 1]
                    ELSE txs
          /\ committed' = IF txs[t].status = "open" /\ end = "committed"
                          THEN committed \cup txs[t].writes
                          ELSE committed
          /\ stack' = [stack EXCEPT ![r] = SubSeq(@, 1, n - 1)]
          /\ lastErr' = [lastErr EXCEPT ![r] = ret]
          /\ last' =
                [kind |-> "returned", req |-> r, tx |-> t, given |-> f.given, txCtx |-> f.txCtx,
                 unitErr |-> unitErr, commitErr |-> commitErr, ret |-> ret,
                 mine |-> f.mine, depth |-> n]
    /\ UNCHANGED <<cancelled, nW, nTx>>
    /\ UNCHANGED <<reqs, cctx, cparent, cop, cattached, clsVars, regVars, appVars>>

Calls ==
    \/ \E r \in reqs : \E c \in CallCtxs(r), f \in WriteFailures \cup {Nil} : Create(r, c, f)
    \/ \E r \in reqs : \E c \in CallCtxs(r), f \in WriteFailures \cup {Nil} : Update(r, c, f)
    \/ \E r \in reqs : \E c \in CallCtxs(r), f \in WriteFailures \cup {Nil} : Delete(r, c, f)
    \/ \E r \in reqs : \E c \in AtomicCtxs(r), f \in BeginFailures \cup {Nil} : AtomicBegin(r, c, f)
    \/ \E r \in reqs : \E e \in UnitErrs(r), f \in CommitFailures \cup {Nil} :
          AtomicReturn(r, e, f)

Next ==
    \/ \E r \in reqs, s \in {Canceled, DeadlineExceeded} : Cancel(r, s)
    \/ Calls

\* one request, whose context may be cancelled at any point
Spec == Init /\ [][Next]_vars
\* two requests on independent contexts, every interleaving of their calls
SpecConc == InitConc /\ [][Calls]_vars

\* ------------------------------------------------- carrier specification

\* The caller starts from context.Background() or passes a nil context.
CarrierStart(c) ==
    /\ cop.op # "start"
    /\ cctx' = c
    /\ cparent' = c
    /\ cop' = [op |-> "start"]
    /\ cattached' = FALSE
    /\ UNCHANGED <<reqs, cancelled, stack, lastErr, last, nW, txs, nTx, committed,
                   clsVars, regVars, appVars>>

\* middleware.RequestID on a request carrying the given X-Request-ID header
CarrierRequestID(header) ==
    /\ ~cctx.nil
    /\ Len(cctx.vals) < MaxCtxLen
    /\ cctx' = SetRequestID(cctx, RequestIDOf(header))
    /\ cparent' = cctx
    /\ cop' = [op |-> "SetRequestID", id |-> RequestIDOf(header)]
    /\ UNCHANGED cattached
    /\ UNCHANGED <<reqs, cancelled, stack, lastErr, last, nW, txs, nTx, committed,
                   clsVars, regVars, appVars>>

\* ctxkey.SetTransaction, as Atomic calls it with the handle of a transaction
CarrierSetTransaction(t) ==
    /\ ~cctx.nil
    /\ Len(cctx.vals) < MaxCtxLen
    /\ cctx' = SetTransaction(cctx, GormTx(t))
    /\ cparent' = cctx
    /\ cop' = [op |-> "SetTransaction", tx |-> GormTx(t), before |-> GetTransaction(cctx)]
    /\ cattached' = TRUE
    /\ UNCHANGED <<reqs, cancelled, stack, lastErr, last, nW, txs, nTx, committed,
                   clsVars, regVars, appVars>>

\* context.WithValue under the key of another package
CarrierWithValue(v) ==
    /\ ~cctx.nil
    /\ Len(cctx.vals) < MaxCtxLen
    /\ cctx' = WithValue(cctx, otherKey, GoString(v))
    /\ cparent' = cctx
    /\ cop' = [op |-> "WithValue", v |-> v]
    /\ UNCHANGED cattached
    /\ UNCHANGED <<reqs, cancelled, stack, lastErr, last, nW, txs, nTx, committed,
                   clsVars, regVars, appVars>>

NextCtx ==
    \/ \E c \in {Background, NilCtx} : CarrierStart(c)
    \/ \E h \in Headers : CarrierRequestID(h)
    \/ \E t \in TxIds : CarrierSetTransaction(t)
    \/ \E v \in {"span"} : CarrierWithValue(v)

SpecCtx == Init /\ [][NextCtx]_vars

\* ----------------------------------------------- classifier specification

\* MapDBError applied to the raw error at hand
Classify ==
    /\ rawErr # Nil
    /\ mapped = Unmapped
    /\ mapped' = MapDBError(rawErr)
    /\ UNCHANGED <<rawErr, txVars, regVars, appVars>>

InitClassify ==
    /\ InitOf({})
    /\ rawErr \in RawErrors
    /\ mapped = Unmapped
    /\ InitReg
    /\ InitApp

NextClassify == Classify

\* every raw error of RawErrors, classified once
SpecClassify == InitClassify /\ [][NextClassify]_vars

\* ------------------------------------------------- registry specification

\* AppError.GetHttpStatus against a registry: the code, then the upper-cased
\* code, then the default of the Kind
GetHttpStatusKindOnly(reg, e) ==
    IF e.Kind = KindPersistance THEN 400
    ELSE IF e.Kind = KindTransient THEN 503
    ELSE 500
GetHttpStatusIn(reg, e) ==
    IF e.Code \in DOMAIN reg THEN reg[e.Code]
    ELSE IF ToUpper(e.Code) \in DOMAIN reg THEN reg[ToUpper(e.Code)]
    ELSE IF e.Kind = KindPersistance THEN 400
    ELSE IF e.Kind = KindTransient THEN 503
    ELSE IF e.Kind = KindInternal THEN 500
    ELSE 500
GetHttpStatus(e) == GetHttpStatusIn(statusRegistry, e)

\* the errors handed to GetHttpStatus: every code under every Kind, a code no
\* one registers, and the classified unique-constraint violation
ResolveErrs ==
    {New(c, <<"message">>, k, Nil) : c \in RegCodes \cup {"UNREGISTERED_ERROR"}, k \in Kinds}
    \cup {MapDBError(ErrRawUnique)}

\* the status of the last module registration of each code
NoteModuleReg(code, status) ==
    [c \in (DOMAIN moduleReg) \cup {code} |-> IF c = code THEN status ELSE moduleReg[c]]

\* apperror.RegisterStatus, called from a module's init() or during bootstrap
RegisterStatus(code, status) ==
    /\ statusRegistry' = MapAssign(statusRegistry, code, status)
    /\ moduleReg' = NoteModuleReg(code, status)
    /\ regop' = [op |-> "RegisterStatus", code |-> code, status |-> status,
                 before |-> statusRegistry]
    /\ UNCHANGED <<pcReg, regArgs, crashed>>
    /\ UNCHANGED <<txVars, clsVars, appVars>>

\* the presentation boundary resolves the status of an error
Resolve(e) ==
    /\ regop' = [op |-> "GetHttpStatus", err |-> e, status |-> {GetHttpStatus(e)},
                 before |-> statusRegistry]
    /\ UNCHANGED <<statusRegistry, moduleReg, pcReg, regArgs, crashed>>
    /\ UNCHANGED <<txVars, clsVars, appVars>>

InitRegistry == InitOf({}) /\ InitCls /\ InitReg /\ InitApp

NextRegistry ==
    \/ \E code \in RegCodes, status \in RegStatuses : RegisterStatus(code, status)
    \/ \E e \in ResolveErrs : Resolve(e)

\* registrations and resolutions one after the other, as at startup
SpecRegistry == InitRegistry /\ [][NextRegistry]_vars

\* ---------------------------------- registry under concurrent goroutines

\* the module goroutines inside the map assignment of RegisterStatus
Writing == {m \in Modules : pcReg[m] = "writing"}

\* RegisterStatus of goroutine m reaches statusRegistry[code] = status. The map
\* is a plain Go map: when another goroutine is inside an assignment the
\* runtime either stops the process (fatal error: concurrent map writes) or
\* does not notice.
RegisterEnter(m) ==
    /\ ~crashed
    /\ pcReg[m] = "idle"
    /\ \/ /\ pcReg' = [pcReg EXCEPT ![m] = "writing"]
          /\ UNCHANGED crashed
       \/ /\ Writing # {}
          /\ crashed' = TRUE
          /\ UNCHANGED pcReg
    /\ UNCHANGED <<statusRegistry, moduleReg, regop, regArgs>>
    /\ UNCHANGED <<txVars, clsVars, appVars>>

\* The assignment of goroutine m completes. Alone in the map the entry is
\* stored; racing with another assignment it is stored, or lost, or the
\* runtime stops the process.
RegisterExit(m) ==
    /\ ~crashed
    /\ pcReg[m] = "writing"
    /\ \/ /\ statusRegistry' = MapAssign(statusRegistry, regArgs[m].code, regArgs[m].status)
          /\ UNCHANGED crashed
       \/ /\ Writing # {m}
          /\ UNCHANGED <<statusRegistry, crashed>>
       \/ /\ Writing # {m}
          /\ crashed' = TRUE
          /\ UNCHANGED statusRegistry
    /\ pcReg' = [pcReg EXCEPT ![m] = "done"]
    /\ moduleReg' = NoteModuleReg(regArgs[m].code, regArgs[m].status)
    /\ regop' = [op |-> "RegisterStatus", code |-> regArgs[m].code,
                 status |-> regArgs[m].status, before |-> statusRegistry]
    /\ UNCHANGED regArgs
    /\ UNCHANGED <<txVars, clsVars, appVars>>

\* the registries a read racing with the assignments in progress may see
RacingRegistries ==
    {statusRegistry}
    \cup {MapAssign(statusRegistry, regArgs[m].code, regArgs[m].status) : m \in Writing}

\* GetHttpStatus on a request goroutine while the modules register: with no
\* assignment in progress it reads the map; racing with one the runtime stops
\* the process (fatal error: concurrent map read and map write) or the read
\* sees the map before or after the assignment.
ResolveConc(e) ==
    /\ ~crashed
    /\ \/ /\ regop' = [op |-> "GetHttpStatus", err |-> e,
                       status |-> {GetHttpStatusIn(reg, e) : reg \in RacingRegistries},
                       before |-> statusRegistry]
          /\ UNCHANGED crashed
       \/ /\ Writing # {}
          /\ crashed' = TRUE
          /\ UNCHANGED regop
    /\ UNCHANGED <<statusRegistry, moduleReg, pcReg, regArgs>>
    /\ UNCHANGED <<txVars, clsVars, appVars>>

\* What independent modules register: distinct codes, or one code with one
\* status.
ModuleArgs ==
    {a \in [Modules -> [code : RegCodes, status : RegStatuses]] :
        \A m \in Modules, n \in Modules :
           a[m].code = a[n].code => a[m].status = a[n].status}

InitRegConc ==
    /\ InitOf({})
    /\ InitCls
    /\ statusRegistry = init
    /\ moduleReg = NoModuleReg
    /\ regop = NoRegOp
    /\ pcReg = [m \in Modules |-> "idle"]
    /\ regArgs \in ModuleArgs
    /\ crashed = FALSE
    /\ InitApp

NextRegConc ==
    \/ \E m \in Modules : RegisterEnter(m)
    \/ \E m \in Modules : RegisterExit(m)
    \/ \E e \in ResolveErrs : ResolveConc(e)

\* two module goroutines register while a request goroutine resolves
SpecRegConc == InitRegConc /\ [][NextRegConc]_vars

\* ---------------------------------------------- error value specification

DetailKeys == {"booking_code", "user_id"}
DetailValues == {"B-001"}
ValidationFields == {"email", "age"}
ValidationMessages == {"invalid"}
ValidationEntries == [field : ValidationFields, message : ValidationMessages]
\* the lists a validator hands to AddValidationErrors
ValidationLists ==
    {<<>>} \cup {<<x>> : x \in ValidationEntries}
\* the causes handed to WithError
Causes == {ErrRawUnique, ErrRawDeadline}

NoEntries == [entries |-> {}, replaced |-> FALSE]

\* apperror.New with every choice of message (also the empty one), Kind and cause
NewValues ==
    {New(CodeBookingCodeAlreadyExists, m, k, c) :
        m \in {<<>>, <<"booking code already exists">>}, k \in Kinds,
        c \in {Nil, ErrRawUnique}}

EvWithDetail(k, v) ==
    /\ ev' = WithDetail(ev, k, v)
    /\ evop' = [op |-> "WithDetail", before |-> ev, key |-> k, value |-> v]
    /\ evAdded' = [evAdded EXCEPT !.entries = @ \cup {<<"key", k>>}]
    /\ UNCHANGED ev0
    /\ UNCHANGED <<txVars, clsVars, regVars, webVars, ucVars>>

EvWithError(c) ==
    /\ ev' = WithError(ev, c)
    /\ evop' = [op |-> "WithError", before |-> ev, err |-> c]
    /\ UNCHANGED <<ev0, evAdded>>
    /\ UNCHANGED <<txVars, clsVars, regVars, webVars, ucVars>>

EvAddValidationError(f, m) ==
    /\ ev.Details.shape \in {"[]map[string]string", "[]map[string]any"} =>
          Len(ev.Details.l) < MaxDetails
    /\ ev' = AddValidationError(ev, f, m)
    /\ evop' = [op |-> "AddValidationError", before |-> ev, field |-> f, message |-> m]
    /\ evAdded' = [evAdded EXCEPT !.entries = @ \cup {<<"field", f, m>>}]
    /\ UNCHANGED ev0
    /\ UNCHANGED <<txVars, clsVars, regVars, webVars, ucVars>>

EvAddValidationErrors(list) ==
    /\ ev' = AddValidationErrors(ev, list)
    /\ evop' = [op |-> "AddValidationErrors", before |-> ev, errors |-> list]
    /\ evAdded' = [entries |-> {}, replaced |-> TRUE]
    /\ UNCHANGED ev0
    /\ UNCHANGED <<txVars, clsVars, regVars, webVars, ucVars>>

EvError ==
    /\ evop' = [op |-> "Error", before |-> ev, out |-> Error(ev)]
    /\ UNCHANGED <<ev, ev0, evAdded>>
    /\ UNCHANGED <<txVars, clsVars, regVars, webVars, ucVars>>

InitErrVal ==
    /\ InitOf({})
    /\ InitCls
    /\ InitReg
    /\ ev \in NewValues
    /\ ev0 = ev
    /\ evop = NoEvOp
    /\ evAdded = NoEntries
    /\ InitWeb
    /\ InitUc

NextErrVal ==
    \/ \E k \in DetailKeys, v \in DetailValues : EvWithDetail(k, v)
    \/ \E c \in Causes : EvWithError(c)
    \/ \E f \in ValidationFields, m \in ValidationMessages : EvAddValidationError(f, m)
    \/ \E list \in ValidationLists : EvAddValidationErrors(list)
    \/ EvError

\* one error value and every sequence of calls on it
SpecErrVal == InitErrVal /\ [][NextErrVal]_vars

\* ------------------------------------------------- HTTP boundary specification

\* a *fiber.Error
FiberError(code, message) == [t |-> "fiber.Error", Code |-> code, Message |-> message]
\* fiber.ErrInternalServerError.Code
StatusInternalServerError == 500
\* the error fiber returns for a route no handler matches
ErrNotFound == FiberError(404, <<"Cannot GET /nope">>)

\* the package-level *AppError a handler returns: the variable, not a copy
Ref(name) == [t |-> "ref", name |-> name]
\* what an error read through its pointer shows now
Deref(x) == IF x.t = "ref" THEN heap[x.name] ELSE x

\* err.Error() of an error that is not an AppError: its text, phrase by phrase
RECURSIVE PhraseSeq(_)
PhraseSeq(S) ==
    IF S = {} THEN <<>>
    ELSE LET x == CHOOSE y \in S : TRUE
         IN <<x>> \o PhraseSeq(S \ {x})
ErrorText(err) ==
    IF err.t = "AppError" THEN Error(err)
    ELSE IF err.t = "fiber.Error" THEN err.Message
    ELSE IF err.t = "ValidationErrors" THEN <<"validation failed">>
    ELSE PhraseSeq(err.msg)

\* fmt.Sprintf("ERR_%d", code)
SprintfErr(code) == "ERR_" \o ToString(code)

\* errorHdlr: the response it writes for err
errorHdlr(err) ==
    LET e == Deref(err)
    IN IF e.t = "AppError" THEN
          [Status |-> GetHttpStatus(e), Message |-> e.Message, ErrorCode |-> e.Code,
           Errors |-> e.Details, IsRetryable |-> IsRetryable(e)]
       ELSE IF e.t = "fiber.Error" THEN
          [Status |-> e.Code, Message |-> e.Message, ErrorCode |-> SprintfErr(e.Code),
           Errors |-> NoDetails, IsRetryable |-> FALSE]
       ELSE
          [Status |-> StatusInternalServerError, Message |-> ErrorText(e),
           ErrorCode |-> SprintfErr(StatusInternalServerError),
           Errors |-> NoDetails, IsRetryable |-> FALSE]

\* the error c.BodyParser returns for the body of request r
ParseErr(r) ==
    IF r = "r1" THEN Raw({}, NoPg, {"unexpected end of JSON input"})
    ELSE Raw({}, NoPg, {"invalid character"})
\* the validator.ValidationErrors Validate returns for the DTO of request r
FieldError(field, tag, param) == [field |-> field, tag |-> tag, param |-> param]
ValErr(r) ==
    [t |-> "ValidationErrors",
     fields |-> IF r = "r1" THEN <<FieldError("booking_code", "required", "")>>
                ELSE <<FieldError("user_id", "uuid_rfc4122", "")>>]
\* playgroundValidator.translateTag
translateTag(fe) ==
    IF fe.tag = "required" THEN fe.field \o " is required"
    ELSE IF fe.tag \in {"uuid", "uuid_rfc4122"} THEN fe.field \o " must be a valid UUID"
    ELSE fe.field \o " is invalid"
\* playgroundValidator.ToDetails
ToDetails(err) ==
    IF err.t # "ValidationErrors" THEN <<>>
    ELSE [i \in DOMAIN err.fields |->
            LET fe == err.fields[i]
            IN [field |-> fe.field, message |-> translateTag(fe),
                code |-> IF fe.tag = "uuid_rfc4122" THEN "uuid" ELSE fe.tag,
                param |-> fe.param]]

\* the errors Execute hands back to the handler
UseCaseErrs ==
    {MapDBError(ErrRawDeadline), MapDBError(ErrRawUnique), MapDBError(ErrRawCanceled),
     ErrBookingCodeAlreadyExists, ErrRawBrokenPipe}

\* Handler.CreateBooking, body does not parse:
\* return apperror.ErrCodeMalformedRequest.WithError(err)
HandlerBodyParser(r) ==
    /\ web[r].pc = "start"
    /\ heap' = [heap EXCEPT !.ErrCodeMalformedRequest = WithError(@, ParseErr(r))]
    /\ web' = [web EXCEPT ![r] = [@ EXCEPT !.pc = "returned", !.case = "malformed",
                                            !.err = Ref("ErrCodeMalformedRequest")]]
    /\ UNCHANGED <<txVars, clsVars, regVars, evVars, ucVars>>

\* Handler.CreateBooking, DTO does not validate, first call of the chain:
\* apperror.ErrCodeInvalidRequest.WithError(err)
HandlerValidate(r) ==
    /\ web[r].pc = "start"
    /\ heap' = [heap EXCEPT !.ErrCodeInvalidRequest = WithError(@, ValErr(r))]
    /\ web' = [web EXCEPT ![r] = [@ EXCEPT !.pc = "withError", !.case = "invalid"]]
    /\ UNCHANGED <<txVars, clsVars, regVars, evVars, ucVars>>

\* second call of the chain, and the return:
\* .AddValidationErrors(h.Val.ToDetails(err))
HandlerAddValidationErrors(r) ==
    /\ web[r].pc = "withError"
    /\ heap' = [heap EXCEPT !.ErrCodeInvalidRequest =
                   AddValidationErrors(@, ToDetails(ValErr(r)))]
    /\ web' = [web EXCEPT ![r] = [@ EXCEPT !.pc = "returned",
                                            !.err = Ref("ErrCodeInvalidRequest")]]
    /\ UNCHANGED <<txVars, clsVars, regVars, evVars, ucVars>>

\* Handler.CreateBooking, Execute fails: the handler returns its error as it is
HandlerUseCase(r, e) ==
    /\ web[r].pc = "start"
    /\ web' = [web EXCEPT ![r] = [@ EXCEPT !.pc = "returned", !.case = "usecase",
                                            !.err = e]]
    /\ UNCHANGED heap
    /\ UNCHANGED <<txVars, clsVars, regVars, evVars, ucVars>>

\* no route matches: fiber itself returns the error
FiberRouteError(r) ==
    /\ web[r].pc = "start"
    /\ web' = [web EXCEPT ![r] = [@ EXCEPT !.pc = "returned", !.case = "fiber",
                                            !.err = ErrNotFound]]
    /\ UNCHANGED heap
    /\ UNCHANGED <<txVars, clsVars, regVars, evVars, ucVars>>

\* the error handler of the server runs on the error the handler returned
ErrorHdlr(r) ==
    /\ web[r].pc = "returned"
    /\ web' = [web EXCEPT ![r] = [@ EXCEPT !.pc = "responded",
                                            !.presented = Deref(web[r].err),
                                            !.resp = errorHdlr(web[r].err)]]
    /\ UNCHANGED heap
    /\ UNCHANGED <<txVars, clsVars, regVars, evVars, ucVars>>

InitHttp ==
    /\ InitOf({})
    /\ InitCls
    /\ InitReg
    /\ InitEv
    /\ InitWeb
    /\ InitUc

NextHttp ==
    \/ \E r \in Requests : HandlerBodyParser(r)
    \/ \E r \in Requests : HandlerValidate(r)
    \/ \E r \in Requests : HandlerAddValidationErrors(r)
    \/ \E r \in Requests, e \in UseCaseErrs : HandlerUseCase(r, e)
    \/ \E r \in Requests : FiberRouteError(r)
    \/ \E r \in Requests : ErrorHdlr(r)

\* two requests, each failing somewhere before or inside its handler
SpecHttp == InitHttp /\ [][NextHttp]_vars

\* ---------------------------------------------- create booking specification

ErrBookingAmountInconsistent ==
    NewPersistance("BOOKING_AMOUNT_INCONSISTENT",
                   <<"total amount does not match with details subtotal">>, Nil)
ErrBookingDetailRequired ==
    NewPersistance("BOOKING_DETAIL_REQUIRED",
                   <<"booking must have at least one detail">>, Nil)

\* the bookings Execute builds from its request: the code (also the empty one),
\* the number of details, and whether the amounts add up
BookingCodes == {"", "B-001"}
Bookings ==
    {[t |-> "Booking", BookingCode |-> c, nDetails |-> d.n, consistent |-> d.ok] :
        c \in BookingCodes, d \in {[n |-> 0, ok |-> TRUE], [n |-> 1, ok |-> TRUE],
                                   [n |-> 1, ok |-> FALSE]}}

\* Booking.Validate
Validate(e) ==
    IF e.nDetails = 0 THEN ErrBookingDetailRequired
    ELSE IF ~e.consistent THEN ErrBookingAmountInconsistent
    ELSE Nil

\* bookingRepository.ExistsByBookingCode against the committed rows: the pair
\* (exists, err) it returns
ExistsByBookingCode(rows, code, fail) ==
    IF code = "" THEN [exists |-> FALSE, err |-> Nil]
    ELSE IF fail # Nil THEN [exists |-> FALSE, err |-> MapDBError(fail)]
    ELSE [exists |-> \E b \in rows : b.BookingCode = code, err |-> Nil]

\* Execute after the uniqueness check: where it goes and what it returns
AfterExistsProceed(res) == [pc |-> "atomic", err |-> Nil]
AfterExists(res) ==
    IF res.err # Nil THEN [pc |-> "done", err |-> res.err]
    ELSE IF res.exists THEN [pc |-> "done", err |-> ErrBookingCodeAlreadyExists]
    ELSE [pc |-> "atomic", err |-> Nil]

\* CreateBookingResponse
CreateBookingResponse(e) == [t |-> "CreateBookingResponse", BookingCode |-> e.BookingCode]

ExistsFailures == {ErrRawDeadline}
CreateFailures == {ErrRawDeadline}

\* the transactions Execute calls have begun so far
TxBegun == Cardinality({q \in Requests : ucs[q].tx # 0})
\* another call's transaction holds an uncommitted row with this code: the
\* unique index makes an insert of the same code wait for that transaction
PendingElsewhere(r, code) ==
    \E q \in Requests \ {r} :
        ucs[q].pc = "commit" /\ ucs[q].inserted /\ ucs[q].e.BookingCode = code

\* Execute(ctx, request) is called: the entity is built
ExecuteStart(r, e) ==
    /\ ucs[r].pc = "idle"
    /\ ucs' = [ucs EXCEPT ![r] = [@ EXCEPT !.pc = "validate", !.e = e,
                                            !.ctx = SetRequestID(Background, r)]]
    /\ UNCHANGED bookings
    /\ UNCHANGED <<txVars, clsVars, regVars, evVars, webVars>>

\* e.Validate(); on an error: return nil, err
ExecuteValidate(r) ==
    /\ ucs[r].pc = "validate"
    /\ LET err == Validate(ucs[r].e)
       IN ucs' = [ucs EXCEPT ![r] =
             [@ EXCEPT !.calls = Append(@, "Validate"),
                       !.pc = IF err # Nil THEN "done" ELSE "exists",
                       !.err = err, !.resp = Nil]]
    /\ UNCHANGED bookings
    /\ UNCHANGED <<txVars, clsVars, regVars, evVars, webVars>>

\* uc.Repo.BookingQry.ExistsByBookingCode(ctx, e.BookingCode) and the two
\* returns that follow it
ExecuteExists(r, fail) ==
    /\ ucs[r].pc = "exists"
    /\ LET res == ExistsByBookingCode(bookings, ucs[r].e.BookingCode, fail)
           nxt == AfterExists(res)
       IN ucs' = [ucs EXCEPT ![r] =
             [@ EXCEPT !.calls = Append(@, "ExistsByBookingCode"),
                       !.checked = IF res.err # Nil THEN "error"
                                   ELSE IF res.exists THEN "exists" ELSE "free",
                       !.fault = res.err # Nil,
                       !.pc = nxt.pc, !.err = nxt.err, !.resp = Nil]]
    /\ UNCHANGED bookings
    /\ UNCHANGED <<txVars, clsVars, regVars, evVars, webVars>>

\* uc.Runner.Atomic(ctx, fn) up to the invocation of fn
ExecuteAtomic(r, fail) ==
    /\ ucs[r].pc = "atomic"
    /\ LET t == NewTxId(TxBegun)
       IN ucs' = [ucs EXCEPT ![r] =
             IF fail # Nil
             THEN [@ EXCEPT !.calls = Append(@, "Atomic"), !.pc = "done",
                            !.fault = TRUE, !.err = fail, !.resp = Nil]
             ELSE [@ EXCEPT !.calls = Append(@, "Atomic"), !.pc = "create", !.tx = t]]
    /\ UNCHANGED bookings
    /\ UNCHANGED <<txVars, clsVars, regVars, evVars, webVars>>

\* fn: uc.Repo.BookingCmd.Create(txCtx, &e) on the session txCtx resolves to
ExecuteCreate(r, fail) ==
    /\ ucs[r].pc = "create"
    /\ ~PendingElsewhere(r, ucs[r].e.BookingCode)
    /\ LET txCtx == SetTransaction(ucs[r].ctx, GormTx(ucs[r].tx))
           db == getDB(txCtx)
           dup == \E b \in bookings : b.BookingCode = ucs[r].e.BookingCode
           raw == IF fail # Nil THEN fail ELSE IF dup THEN ErrRawUnique ELSE Nil
       IN /\ ucs' = [ucs EXCEPT ![r] =
                [@ EXCEPT !.calls = Append(@, "Create"), !.pc = "commit",
                          !.createCtx = txCtx,
                          !.inserted = (raw = Nil /\ db.tx # 0),
                          !.fault = fail # Nil,
                          !.unitErr = mapErr(raw)]]
          /\ bookings' = IF raw = Nil /\ db.tx = 0
                         THEN bookings \cup {[BookingCode |-> ucs[r].e.BookingCode, by |-> r]}
                         ELSE bookings
    /\ UNCHANGED <<txVars, clsVars, regVars, evVars, webVars>>

\* the rest of Atomic (commit or rollback) and the end of Execute
ExecuteReturn(r, fail) ==
    /\ ucs[r].pc = "commit"
    /\ LET unitErr == ucs[r].unitErr
           commitErr == IF unitErr # Nil THEN Nil ELSE fail
           errRunner == AtomicResult(unitErr, commitErr)
           end == EndStatus(unitErr, commitErr)
       IN /\ bookings' = IF end = "committed" /\ ucs[r].inserted
                         THEN bookings \cup {[BookingCode |-> ucs[r].e.BookingCode, by |-> r]}
                         ELSE bookings
          /\ ucs' = [ucs EXCEPT ![r] =
                [@ EXCEPT !.pc = "done", !.inserted = FALSE,
                          !.fault = @ \/ commitErr # Nil,
                          !.err = errRunner,
                          !.resp = IF errRunner # Nil THEN Nil
                                   ELSE CreateBookingResponse(ucs[r].e)]]
    /\ UNCHANGED <<txVars, clsVars, regVars, evVars, webVars>>

InitBooking ==
    /\ InitOf({})
    /\ InitCls
    /\ InitReg
    /\ InitEv
    /\ InitWeb
    /\ InitUc

NextBooking ==
    \/ \E r \in Requests, e \in Bookings : ExecuteStart(r, e)
    \/ \E r \in Requests : ExecuteValidate(r)
    \/ \E r \in Requests, f \in ExistsFailures \cup {Nil} : ExecuteExists(r, f)
    \/ \E r \in Requests, f \in BeginFailures \cup {Nil} : ExecuteAtomic(r, f)
    \/ \E r \in Requests, f \in CreateFailures \cup {Nil} : ExecuteCreate(r, f)
    \/ \E r \in Requests, f \in CommitFailures \cup {Nil} : ExecuteReturn(r, f)

\* two Execute calls, concurrent or one after the other, against one table
SpecBooking == InitBooking /\ [][NextBooking]_vars

\* ------------------------------------------------------------------ claims

\* The handle a context carries: the innermost value on its chain that was
\* attached as a transaction handle, whatever key it sits under.
Carried(c) ==
    LET idx == {i \in 1..Len(c.vals) : c.vals[i][2].t = "*gorm.DB"}
    IN IF idx = {} THEN Nil
       ELSE c.vals[CHOOSE i \in idx : \A j \in idx : j <= i][2]

Terminal == {"committed", "rolledback"}
Frames(r) == {stack[r][i] : i \in 1..Len(stack[r])}

\* C1: an Atomic call made inside a unit of work with the context that unit
\* received joins the unit's transaction (no second transaction is opened), and
\* when the inner unit has returned an error the outer unit's writes are rolled
\* back.
C1_JoinSemantics ==
    /\ \A r \in reqs : \A i \in 2..Len(stack[r]) :
          stack[r][i].given = stack[r][i - 1].txCtx => stack[r][i].tx = stack[r][i - 1].tx
    /\ (last.kind = "returned" /\ last.depth > 1 /\ last.unitErr # Nil
          /\ last.given = stack[last.req][last.depth - 1].txCtx)
       => txs[stack[last.req][last.depth - 1].tx].status = "rolledback"

\* C2, as stated: a unit that made two writes with the context it was given and
\* returned an error leaves neither write observable; one that returned nil
\* leaves both observable once Atomic has returned.
C2_AtomicityAsStated ==
    (last.kind = "returned" /\ Cardinality(last.mine) >= 2)
    => /\ last.unitErr # Nil => last.mine \cap committed = {}
       /\ last.unitErr = Nil => last.mine \subseteq committed

\* C2, amended: a unit that made two writes with the context it was given and
\* returned an error leaves neither write observable; one that returned nil
\* leaves both observable once Atomic has returned nil, that is once the commit
\* has succeeded.
C2_Atomicity ==
    (last.kind = "returned" /\ Cardinality(last.mine) >= 2)
    => /\ last.unitErr # Nil => last.mine \cap committed = {}
       /\ (last.unitErr = Nil /\ last.ret = Nil) => last.mine \subseteq committed

C2_Witness ==
    /\ last.kind = "returned"
    /\ Cardinality(last.mine) >= 2
    /\ last.unitErr # Nil
    /\ txs[last.tx].status = "rolledback"

\* C3: when the unit returns an error the transaction is rolled back (none of
\* its writes is observable) and Atomic returns that very error value.
C3_UnitErrorUnchanged ==
    (last.kind = "returned" /\ last.unitErr # Nil)
    => /\ last.ret = last.unitErr
       /\ txs[last.tx].status = "rolledback"
       /\ txs[last.tx].writes \cap committed = {}

C3_Witness ==
    /\ last.kind = "returned"
    /\ last.unitErr # Nil
    /\ last.unitErr.t = "AppError"
    /\ last.unitErr.Code = CodeDbConflict
    /\ txs[last.tx].writes # {}

\* C4: when the unit returns nil and the commit fails, Atomic returns the
\* commit failure classified by MapDBError, an AppError, not the raw error.
C4_CommitFailureClassified ==
    (last.kind = "returned" /\ last.unitErr = Nil /\ last.commitErr # Nil)
    => /\ last.ret = MapDBError(last.commitErr)
       /\ last.ret.t = "AppError"

\* C5: a transaction is begun before its unit runs, the unit is invoked once,
\* and the transaction is ended exactly once, by a commit or a rollback, by the
\* time Atomic returns, also under cancellation; none stays open afterwards.
C5_TxLifecycle ==
    /\ \A r \in reqs : \A f \in Frames(r) :
          txs[f.tx].status # "none" /\ txs[f.tx].unitCalls = 1
    /\ \A t \in TxIds :
          /\ txs[t].status = "none" => txs[t].unitCalls = 0 /\ txs[t].ends = 0
          /\ txs[t].status = "open" =>
                /\ txs[t].unitCalls = 1 /\ txs[t].ends = 0
                /\ \E f \in Frames(txs[t].owner) : f.tx = t
          /\ txs[t].status \in Terminal => txs[t].unitCalls = 1 /\ txs[t].ends = 1
    /\ last.kind = "returned" =>
          txs[last.tx].status \in Terminal /\ txs[last.tx].ends = 1

C5_Witness ==
    /\ last.kind = "returned"
    /\ cancelled[last.req] = Canceled
    /\ last.unitErr = Nil
    /\ txs[last.tx].writes # {}
    /\ txs[last.tx].status = "rolledback"

\* C6: every deadline or cancellation signal a repository call meets is
\* classified as a Transient error with code DB_TIMEOUT.
C6_CancellationIsTimeout ==
    (last.kind = "repo" /\ last.raw # Nil
       /\ (ErrorsIs(last.raw, Canceled) \/ ErrorsIs(last.raw, DeadlineExceeded)))
    => /\ last.ret.t = "AppError"
       /\ last.ret.Code = CodeDbTimeout
       /\ last.ret.Kind = KindTransient

\* C7: a repository write made with a context that carries a transaction
\* handle goes into that transaction and is observable exactly when that
\* transaction is committed; made with a context that carries none it is
\* observable at once, whatever happens to any transaction.
C7_RepoJoinsAmbientTx ==
    (last.kind = "repo" /\ last.raw = Nil)
    => LET h == Carried(last.ctx)
       IN /\ h # Nil => /\ last.w \in txs[h.tx].writes
                        /\ last.w \in committed <=> txs[h.tx].status = "committed"
          /\ h = Nil => last.w \in committed

\* C8: two Atomic calls on independent contexts never share a transaction: the
\* handle of one is never what any context of the other yields, every write
\* sits in a transaction of its own request, and the writes of a committed
\* transaction stay observable whatever the other request's transaction does.
C8_IndependentTransactions ==
    /\ \A r \in reqs : \A f \in Frames(r) :
          /\ txs[f.tx].owner = r
          /\ GetTransaction(f.txCtx) = GormTx(f.tx)
          /\ \A q \in reqs \ {r} :
                /\ \A g \in Frames(q) : g.tx # f.tx
                /\ \A c \in CallCtxs(q) : GetTransaction(c) # GormTx(f.tx)
    /\ \A t \in TxIds :
          /\ \A w \in txs[t].writes : w[1] = txs[t].owner
          /\ txs[t].status = "committed" => txs[t].writes \subseteq committed
          /\ txs[t].status \in {"open", "rolledback"} => txs[t].writes \cap committed = {}

C8_Witness ==
    \E t \in TxIds, u \in TxIds :
       /\ u < t
       /\ txs[t].owner # txs[u].owner
       /\ txs[t].status = "rolledback" /\ txs[t].writes # {}
       /\ txs[u].status = "committed" /\ txs[u].writes # {}
       /\ last.kind = "returned" /\ last.tx = u

\* C9: GetTransaction on a context that never went through SetTransaction
\* yields nil, whatever else was attached to it.
C9_LookupNoneWithoutAttach ==
    ~cattached => GetTransaction(cctx) = Nil

\* C10: GetTransaction on the context SetTransaction returned yields exactly the
\* attached handle, and what the parent context yields is what it yielded
\* before.
C10_CarrierRoundTrip ==
    cop.op = "SetTransaction"
    => /\ GetTransaction(cctx) = cop.tx
       /\ GetTransaction(cparent) = cop.before

C10_Witness ==
    /\ cop.op = "SetTransaction"
    /\ GetTransaction(cparent) # Nil
    /\ GetTransaction(cparent) # cop.tx
    /\ GetTransaction(cctx) = cop.tx

\* A driver error: a *pgconn.PgError as the driver returns it, with no sentinel
\* of gorm or of the context package in its chain.
DriverError(e) == ErrorsAsPg(e) /\ e.is = {}

\* the code and the Kind the classification rules give each recognized SQLSTATE
ByPgCode(c) ==
    IF c \in {"08000", "08003", "08006", "57P01"} THEN <<CodeDbConnectionFailed, KindTransient>>
    ELSE IF c = "40P01" THEN <<CodeDbDeadlock, KindTransient>>
    ELSE IF c = "55P03" THEN <<CodeDbTimeout, KindTransient>>
    ELSE IF c = "23505" THEN <<CodeDbConflict, KindPersistance>>
    ELSE IF c \in {"23503", "23502", "23000"} THEN <<CodeDbConstraint, KindPersistance>>
    ELSE <<CodeInternalError, KindInternal>>

Classified(e) == e # Nil /\ e.t = "AppError" /\ e.Code # "" /\ e.Kind \in Kinds

\* C11: for every non-nil raw storage error MapDBError returns the error itself
\* when it is the not-found sentinel, else an AppError with a non-empty code and
\* one of the three Kinds; it never returns nil.
C11_Totality ==
    mapped # Unmapped
    => /\ mapped # Nil
       /\ \/ mapped = rawErr /\ ErrorsIs(rawErr, ErrRecordNotFound)
          \/ Classified(mapped)

C11_Witness ==
    /\ mapped # Unmapped
    /\ rawErr.is = {Canceled}
    /\ rawErr.pg.Code = "P0001"
    /\ rawErr.msg = {}
    /\ mapped.Code = CodeInternalError
    /\ mapped.Kind = KindInternal

\* C12: a driver error with a recognized SQLSTATE gets the code and the Kind of
\* that SQLSTATE whatever its message text says: the classification of an error
\* with a recognized SQLSTATE is the same for every message text, a deadlock
\* whose text names a connection failure is Transient DB_DEADLOCK, a syntax or
\* schema error whose text names one is Internal INTERNAL_ERROR, not retryable.
C12_OrderingPriority ==
    (mapped # Unmapped /\ rawErr.pg.Code \in RecognizedPgCodes)
    => /\ \A ph \in SUBSET (RawPhrases \cup ConnectionPhrases) :
             LET o == MapDBError([rawErr EXCEPT !.msg = ph])
             IN IF Classified(mapped)
                THEN Classified(o) /\ o.Code = mapped.Code /\ o.Kind = mapped.Kind
                ELSE ~Classified(o)
       /\ DriverError(rawErr) =>
             /\ Classified(mapped)
             /\ <<mapped.Code, mapped.Kind>> = ByPgCode(rawErr.pg.Code)
             /\ rawErr.pg.Code = "40P01" =>
                   mapped.Code = CodeDbDeadlock /\ mapped.Code # CodeDbConnectionFailed
             /\ rawErr.pg.Code \in {"42703", "42601", "42P01"} =>
                   mapped.Code = CodeInternalError /\ ~IsRetryable(mapped)

C12_Witness ==
    /\ mapped # Unmapped
    /\ DriverError(rawErr)
    /\ rawErr.pg.Code = "40P01"
    /\ {"connection refused", "broken pipe"} \subseteq rawErr.msg
    /\ mapped.Code = CodeDbDeadlock
    /\ IsRetryable(mapped)

\* C13: an error that carries a SQLSTATE is classified DB_CONNECTION_FAILED only
\* by that SQLSTATE (a connection-exception code), never by its message text.
C13_SubstringOnlyWithoutCode ==
    (mapped # Unmapped /\ ErrorsAsPg(rawErr) /\ Classified(mapped)
       /\ mapped.Code = CodeDbConnectionFailed)
    => rawErr.pg.Code \in {"08000", "08003", "08006", "57P01"}

\* C14: a driver error whose SQLSTATE is an integrity violation other than the
\* unique violation is classified Persistent DB_CONSTRAINT.
C14_IntegrityIsConstraint ==
    (mapped # Unmapped /\ DriverError(rawErr) /\ rawErr.pg.Code \in IntegrityPgCodes)
    => /\ Classified(mapped)
       /\ mapped.Code = CodeDbConstraint
       /\ mapped.Kind = KindPersistance

\* C15: MapDBError returns its argument itself exactly when the argument is or
\* wraps gorm.ErrRecordNotFound, whatever else the argument matches; every
\* other argument comes back as a new AppError that wraps it.
C15_NotFoundPassthrough ==
    mapped # Unmapped
    => /\ mapped = rawErr <=> ErrorsIs(rawErr, ErrRecordNotFound)
       /\ ~ErrorsIs(rawErr, ErrRecordNotFound) =>
             /\ Classified(mapped)
             /\ mapped.Err \in {rawErr, PgCause(rawErr)}

C15_Witness ==
    /\ mapped # Unmapped
    /\ rawErr.is = {ErrRecordNotFound, DeadlineExceeded}
    /\ rawErr.pg.Code = "40P01"
    /\ "connection refused" \in rawErr.msg
    /\ mapped = rawErr

KindDefault(k) ==
    IF k = KindPersistance THEN 400 ELSE IF k = KindTransient THEN 503 ELSE 500

UniqueViolationClassified(e) ==
    /\ Classified(e)
    /\ e.Code = CodeDbConflict
    /\ e.Kind = KindPersistance
    /\ e.Details.shape = "map"
    /\ e.Details.m["constraint"] = ErrRawUnique.pg.ConstraintName
    /\ e.Details.m["detail"] = ErrRawUnique.pg.Detail

C20_ConcurrentRegistration ==
    /\ ~crashed
    /\ regop.op = "GetHttpStatus" =>
          \E m \in Modules :
             regop.status \subseteq
                {GetHttpStatusIn(regop.before, regop.err),
                 GetHttpStatusIn(MapAssign(regop.before, regArgs[m].code, regArgs[m].status),
                                 regop.err)}
    /\ (\A m \in Modules : pcReg[m] = "done") =>
          /\ \A m \in Modules : /\ regArgs[m].code \in DOMAIN statusRegistry
                                /\ statusRegistry[regArgs[m].code] = regArgs[m].status
          /\ \A c \in DOMAIN statusRegistry :
                \/ \E m \in Modules : regArgs[m].code = c
                \/ c \in DOMAIN init /\ statusRegistry[c] = init[c]

\* a detail entry added by an earlier call is in the container: the key of a
\* WithDetail in the map, the field/message pair of an AddValidationError in
\* the list
Present(e, entry) ==
    IF entry[1] = "key"
    THEN e.Details.shape = "map" /\ entry[2] \in DOMAIN e.Details.m
    ELSE /\ e.Details.shape \in {"[]map[string]string", "[]map[string]any"}
         /\ \E i \in 1..Len(e.Details.l) :
               e.Details.l[i] = [field |-> entry[2], message |-> entry[3]]

\* C21: whatever calls of WithDetail, WithError, AddValidationError and
\* AddValidationErrors were made on an error value, its code, Kind and message
\* are those New gave it, and a WithError call changes the cause only.
C21_CodeKindFixed ==
    ev # Nil
    => /\ ev.Code = ev0.Code
       /\ ev.Kind = ev0.Kind
       /\ ev.Message = ev0.Message
       /\ evop.op = "WithError" => ev = [evop.before EXCEPT !.Err = evop.err]

C21_Witness ==
    /\ ev # Nil
    /\ evop.op = "WithError"
    /\ ev.Err # ev0.Err
    /\ ev.Details # ev0.Details
    /\ ev.Kind = KindPersistance

\* C22: as long as AddValidationErrors was not called on the error value, every
\* detail entry a WithDetail or AddValidationError call added is still in its
\* details.
C22_DetailsAppendOnly ==
    (ev # Nil /\ ~evAdded.replaced)
    => \A entry \in evAdded.entries : Present(ev, entry)

\* C23: AddValidationError on list-shaped details, built by AddValidationError
\* or installed by AddValidationErrors, keeps the entries in order and adds the
\* new field/message entry at the end.
C23_AppendToList ==
    (evop.op = "AddValidationError"
       /\ evop.before.Details.shape \in {"[]map[string]string", "[]map[string]any"})
    => ev.Details.l =
          Append(evop.before.Details.l, [field |-> evop.field, message |-> evop.message])

\* C27: Error() returns the message when it is not empty and the code when it
\* is.
C27_ErrorFallsBackToCode ==
    evop.op = "Error"
    => /\ ev.Message # <<>> => evop.out = ev.Message
       /\ ev.Message = <<>> => evop.out = <<ev.Code>>

\* the request has been answered by the error handler
Responded(r) == web[r].pc = "responded"

\* C24 (as stated): the error value a request returned to the HTTP boundary is
\* not mutated afterwards, and the details and the cause its response is built
\* from are the ones that request produced, whatever the other request does:
\* a request that failed validation is answered with the details of its own
\* validation error, and one that failed body parsing is presented with its
\* own parse error as the cause.
C24_NoMutationAfterReturn ==
    \A r \in Requests :
        /\ (web[r].pc \in {"returned", "responded"} /\ web[r].case = "invalid") =>
              /\ Deref(web[r].err).Err = ValErr(r)
              /\ Deref(web[r].err).Details =
                    [shape |-> "[]map[string]any", l |-> ToDetails(ValErr(r))]
        /\ (web[r].pc \in {"returned", "responded"} /\ web[r].case = "malformed") =>
              Deref(web[r].err).Err = ParseErr(r)
        /\ (Responded(r) /\ web[r].case = "invalid") =>
              /\ web[r].resp.Errors =
                    [shape |-> "[]map[string]any", l |-> ToDetails(ValErr(r))]
              /\ web[r].presented.Err = ValErr(r)
        /\ (Responded(r) /\ web[r].case = "malformed") =>
              web[r].presented.Err = ParseErr(r)

\* C25: IsRetryable() is true exactly for Kind Transient, and the is_retryable
\* flag of every error response is IsRetryable() of the error presented, false
\* when that error is not an AppError.
C25_IsRetryableFlag ==
    /\ \A e \in UseCaseErrs \cup NewValues :
          e.t = "AppError" => (IsRetryable(e) <=> e.Kind = KindTransient)
    /\ \A r \in Requests :
          Responded(r) =>
             (web[r].resp.IsRetryable <=>
                (web[r].presented.t = "AppError" /\ web[r].presented.Kind = KindTransient))

\* C25 witness: a Transient error (the classified deadline), an Internal one
\* (the classified cancellation) and a raw error have all been presented
C25_Witness ==
    /\ Responded("r1") /\ web["r1"].presented = MapDBError(ErrRawDeadline)
    /\ web["r1"].resp.IsRetryable
    /\ Responded("r2") /\ web["r2"].presented = MapDBError(ErrRawCanceled)
    /\ ~web["r2"].resp.IsRetryable

\* C26 (as stated): every error response has a status and a non-empty error
\* code, and an error that is neither an AppError nor a fiber error is answered
\* with 500 and a message that is not its raw error text.
C26_RawErrorMasked ==
    \A r \in Requests :
        Responded(r) =>
           /\ web[r].resp.Status \in 100..599
           /\ web[r].resp.ErrorCode # ""
           /\ web[r].presented.t \notin {"AppError", "fiber.Error"} =>
                 /\ web[r].resp.Status = 500
                 /\ web[r].resp.Message # ErrorText(web[r].presented)

\* the steps of Execute, in their order
ExecuteSteps == <<"Validate", "ExistsByBookingCode", "Atomic", "Create">>
Called(r, name) == \E i \in DOMAIN ucs[r].calls : ucs[r].calls[i] = name

\* C28: Execute calls Validate, ExistsByBookingCode, Atomic and Create in that
\* order and stops at the first failure: after a failed validation only
\* Validate was called; after a uniqueness check that erred or found the code
\* neither Atomic nor Create is called; Create is called only after Atomic has
\* begun a transaction, with the context that resolves to that transaction;
\* and a call that returned an error returned a nil response.
C28_StepOrder ==
    \A r \in Requests :
        LET u == ucs[r]
        IN /\ u.calls = SubSeq(ExecuteSteps, 1, Len(u.calls))
           /\ (u.e # Nil /\ Called(r, "Validate") /\ Validate(u.e) # Nil) =>
                 /\ u.calls = <<"Validate">>
                 /\ u.pc = "done" /\ u.err = Validate(u.e)
           /\ u.checked \in {"error", "exists"} =>
                 /\ u.calls = <<"Validate", "ExistsByBookingCode">>
                 /\ u.pc = "done" /\ u.err # Nil
           /\ u.checked = "exists" => u.err = ErrBookingCodeAlreadyExists
           /\ Called(r, "Create") =>
                 /\ u.tx # 0
                 /\ getDB(u.createCtx) = GormTx(u.tx)
                 /\ \A q \in Requests \ {r} : ucs[q].tx # u.tx
           /\ (u.pc = "done" /\ u.err # Nil) => u.resp = Nil
           /\ (u.pc = "done" /\ u.err = Nil) =>
                 /\ u.calls = ExecuteSteps
                 /\ u.resp = CreateBookingResponse(u.e)

\* C28 witness: one call stopped at the uniqueness check because the code
\* exists, after the other went through all four steps and persisted it
C28_Witness ==
    /\ ucs["r1"].pc = "done" /\ ucs["r1"].err = Nil /\ ucs["r1"].calls = ExecuteSteps
    /\ ucs["r2"].pc = "done" /\ ucs["r2"].checked = "exists"
    /\ ucs["r2"].calls = <<"Validate", "ExistsByBookingCode">>
    /\ ucs["r2"].resp = Nil

\* the committed rows carrying a booking code
RowsOf(code) == {b \in bookings : b.BookingCode = code}

\* C29 (as stated): when two Execute calls with the same booking code have both
\* returned, and nothing but the duplicate went wrong (both entities valid, no
\* failure of the storage), at most one row with that code is persisted and the
\* call that did not persist returned ErrBookingCodeAlreadyExists, which
\* resolves to HTTP 400.
C29_DuplicateCode ==
    \A r \in Requests, q \in Requests :
        (/\ r # q
         /\ ucs[r].pc = "done" /\ ucs[q].pc = "done"
         /\ ucs[r].e.BookingCode = ucs[q].e.BookingCode
         /\ Validate(ucs[r].e) = Nil /\ Validate(ucs[q].e) = Nil
         /\ ~ucs[r].fault /\ ~ucs[q].fault) =>
            /\ Cardinality(RowsOf(ucs[r].e.BookingCode)) <= 1
            /\ ucs[r].err # Nil =>
                  /\ ucs[r].err = ErrBookingCodeAlreadyExists
                  /\ GetHttpStatus(ucs[r].err) = 400

\* C30 (as stated): the transaction handle and the request ID do not disturb
\* each other: the context SetTransaction returns yields the request ID its
\* parent yielded, and the context SetRequestID returns for a parent whose
\* GetTransaction yields a handle yields that same handle, so that a repository
\* call with it still runs on the ambient transaction.
C30_IndependentValues ==
    /\ cop.op = "SetTransaction" => GetRequestID(cctx) = GetRequestID(cparent)
    /\ (cop.op = "SetRequestID" /\ GetTransaction(cparent).t = "*gorm.DB") =>
          /\ GetTransaction(cctx) = GetTransaction(cparent)
          /\ getDB(cctx) = getDB(cparent)

====
